---- MODULE Spec2Model ----
(***************************************************************************)
(* A model of deep-rename-replace.js: the variant generator, the           *)
(* case-preserving substitution engine, and the directory walk that        *)
(* applies them to file contents and to file and folder names.             *)
(*                                                                         *)
(* A JavaScript string is modelled as a sequence of one-character strings, *)
(* a path as a sequence of names (path.join = Append, path.dirname = all   *)
(* but the last name, path.basename = the last name).                      *)
(***************************************************************************)
EXTENDS Naturals, Sequences, FiniteSets, TLC

\* ------------------------------------------------------------------------
\* Characters
\* ------------------------------------------------------------------------
LowerLetters == <<"a","b","c","d","e","f","g","h","i","j","k","l","m",
                  "n","o","p","q","r","s","t","u","v","w","x","y","z">>

UpperLetters == <<"A","B","C","D","E","F","G","H","I","J","K","L","M",
                  "N","O","P","Q","R","S","T","U","V","W","X","Y","Z">>

DigitChars == {"0","1","2","3","4","5","6","7","8","9"}

LetterIdx == 1..Len(LowerLetters)

\* the uppercase letters and the lowercase letters, as sets
UpperSet == {UpperLetters[i] : i \in LetterIdx}

LowerSet == {LowerLetters[i] : i \in LetterIdx}

\* String.prototype.toUpperCase on one character
charToUpper(c) ==
    IF c \in LowerSet
    THEN UpperLetters[CHOOSE i \in LetterIdx : LowerLetters[i] = c]
    ELSE c

\* String.prototype.toLowerCase on one character
charToLower(c) ==
    IF c \in UpperSet
    THEN LowerLetters[CHOOSE i \in LetterIdx : UpperLetters[i] = c]
    ELSE c

toUpperCase(s) == [i \in 1..Len(s) |-> charToUpper(s[i])]

toLowerCase(s) == [i \in 1..Len(s) |-> charToLower(s[i])]

\* the regular expression class \s, over the characters of the model
isSpace(c) == c \in {" ", "\t"}

\* the regular expression class \w
isWordChar(c) == c \in LowerSet \cup UpperSet \cup DigitChars \cup {"_"}

\* s.slice(n): s without its first n characters
slice(s, n) == SubSeq(s, n + 1, Len(s))

\* ------------------------------------------------------------------------
\* generateVariants
\* ------------------------------------------------------------------------
RECURSIVE dropSpaces(_)
\* s without its leading run of whitespace
dropSpaces(s) ==
    IF s # <<>> /\ isSpace(Head(s)) THEN dropSpaces(Tail(s)) ELSE s

RECURSIVE replaceSpaces(_, _)
\* s.replace(/\s+/g, sep)
replaceSpaces(s, sep) ==
    IF s = <<>> THEN <<>>
    ELSE IF isSpace(Head(s)) THEN sep \o replaceSpaces(dropSpaces(s), sep)
    ELSE <<Head(s)>> \o replaceSpaces(Tail(s), sep)

RECURSIVE camelScan(_)
\* s.replace(/\s+(.)/g, (match, letter) => letter.toUpperCase()).  At a run
\* of whitespace followed by a character the run is dropped and the
\* character uppercased; at a run of two or more that ends the string the
\* expression backtracks: \s+ gives up the run's last character to (.), and
\* the run is replaced by that character; a single trailing whitespace
\* character does not match.
camelScan(s) ==
    IF s = <<>> THEN <<>>
    ELSE IF isSpace(Head(s))
         THEN LET rest == dropSpaces(s)
              IN  IF rest # <<>>
                  THEN <<charToUpper(Head(rest))>> \o camelScan(Tail(rest))
                  ELSE IF Len(s) >= 2 THEN <<charToUpper(s[Len(s)])>>
                  ELSE s
         ELSE <<Head(s)>> \o camelScan(Tail(s))

\* s.replace(/(?:^|\s+)(.)/g, (match, letter) => letter.toUpperCase()): at
\* offset 0 the alternative ^ is tried first and (.) takes the first
\* character; further on only \s+(.) can match
pascalScan(s) ==
    IF s = <<>> THEN <<>>
    ELSE <<charToUpper(Head(s))>> \o camelScan(Tail(s))

\* s.replace(/\b\w/g, letter => letter.toUpperCase())
titleScan(s) ==
    [i \in 1..Len(s) |->
        IF isWordChar(s[i]) /\ (i = 1 \/ ~isWordChar(s[i - 1]))
        THEN charToUpper(s[i]) ELSE s[i]]

\* the eleven pushes of generateVariants, in order
rawVariants(str) ==
    << str,
       toUpperCase(str),
       replaceSpaces(toLowerCase(str), <<"_">>),
       replaceSpaces(toUpperCase(str), <<"_">>),
       replaceSpaces(toLowerCase(str), <<"-">>),
       replaceSpaces(toUpperCase(str), <<"-">>),
       camelScan(toLowerCase(str)),
       replaceSpaces(pascalScan(toLowerCase(str)), <<>>),
       titleScan(str),
       replaceSpaces(toLowerCase(str), <<>>),
       replaceSpaces(toUpperCase(str), <<>>) >>

RECURSIVE dedupe(_, _)
\* [...new Set(variants)]: the first occurrence of each, in order
dedupe(vs, seen) ==
    IF vs = <<>> THEN <<>>
    ELSE IF Head(vs) \in seen THEN dedupe(Tail(vs), seen)
    ELSE <<Head(vs)>> \o dedupe(Tail(vs), seen \cup {Head(vs)})

generateVariants(str) == dedupe(rawVariants(str), {})

\* ------------------------------------------------------------------------
\* preserveCase, escapeRegExp and the global replace of one variant
\* ------------------------------------------------------------------------
\* preserveCase mirroring the case onto the whole replacement
preserveCaseWhole(original, replacement) ==
    IF Len(original) = 0 \/ Len(replacement) = 0 THEN replacement
    ELSE IF original[1] = charToUpper(original[1]) /\ original[1] # charToLower(original[1])
         THEN toUpperCase(replacement)
         ELSE toLowerCase(replacement)

\* preserveCase that always lowercases the first character
preserveCaseLower(original, replacement) ==
    IF Len(original) = 0 \/ Len(replacement) = 0 THEN replacement
    ELSE <<charToLower(replacement[1])>> \o slice(replacement, 1)

\* preserveCase(original, replacement)
preserveCase(original, replacement) ==
    IF Len(original) = 0 THEN replacement
    ELSE IF Len(replacement) = 0 THEN replacement
    ELSE LET firstOriginalChar == original[1]
             firstReplacementChar == replacement[1]
         IN  IF /\ firstOriginalChar = charToUpper(firstOriginalChar)
                /\ firstOriginalChar # charToLower(firstOriginalChar)
             THEN <<charToUpper(firstReplacementChar)>> \o slice(replacement, 1)
             ELSE <<charToLower(firstReplacementChar)>> \o slice(replacement, 1)

\* the characters of the class [.*+?^${}()|[\]\\]
regExpSpecials ==
    {".", "*", "+", "?", "^", "$", "{", "}", "(", ")", "|", "[", "]", "\\"}

\* escapeRegExp that escapes nothing
escapeRegExpNone(string) == string

RECURSIVE escapeRegExp(_)
\* string.replace(/[.*+?^${}()|[\]\\]/g, '\\$&'): a backslash before each
\* special character
escapeRegExp(string) ==
    IF string = <<>> THEN <<>>
    ELSE (IF Head(string) \in regExpSpecials
          THEN <<"\\", Head(string)>> ELSE <<Head(string)>>)
         \o escapeRegExp(Tail(string))

RECURSIVE compileRegExp(_)
\* new RegExp(source, 'g'): the source as a sequence of atoms.  A backslash
\* makes the character after it a literal; a bare "." is the wildcard; any
\* other character stands for itself.  (The other special characters reach
\* the constructor only behind a backslash.)
compileRegExp(source) ==
    IF source = <<>> THEN <<>>
    ELSE IF Head(source) = "\\" /\ Len(source) >= 2
         THEN <<[any |-> FALSE, ch |-> source[2]]>> \o compileRegExp(slice(source, 2))
    ELSE IF Head(source) = "."
         THEN <<[any |-> TRUE, ch |-> "."]>> \o compileRegExp(Tail(source))
    ELSE <<[any |-> FALSE, ch |-> Head(source)]>> \o compileRegExp(Tail(source))

\* whether the compiled expression matches at the start of text
matchesAtStart(regex, text) ==
    /\ Len(regex) <= Len(text)
    /\ \A i \in 1..Len(regex) : regex[i].any \/ regex[i].ch = text[i]

RECURSIVE replaceGlobal(_, _, _)
\* text.replace(regex, (match) => preserveCase(match, replaceWith)) with
\* the g flag: matches are taken left to right, the scan resumes after each
\* match, and an empty match is followed by one character of the text
replaceGlobal(text, regex, replaceWith) ==
    IF matchesAtStart(regex, text)
    THEN LET match == SubSeq(text, 1, Len(regex))
         IN  preserveCase(match, replaceWith)
             \o (IF Len(regex) > 0
                 THEN replaceGlobal(slice(text, Len(regex)), regex, replaceWith)
                 ELSE IF text = <<>> THEN <<>>
                 ELSE <<Head(text)>> \o replaceGlobal(Tail(text), regex, replaceWith))
    ELSE IF text = <<>> THEN <<>>
    ELSE <<Head(text)>> \o replaceGlobal(Tail(text), regex, replaceWith)

\* text.match(regex): the matches of the same scan, in order
RECURSIVE matchGlobal(_, _)
matchGlobal(text, regex) ==
    IF matchesAtStart(regex, text)
    THEN <<SubSeq(text, 1, Len(regex))>>
         \o (IF Len(regex) > 0 THEN matchGlobal(slice(text, Len(regex)), regex)
             ELSE IF text = <<>> THEN <<>>
             ELSE matchGlobal(Tail(text), regex))
    ELSE IF text = <<>> THEN <<>>
    ELSE matchGlobal(Tail(text), regex)

\* the turn without the g flag: only the first match is replaced
variantPassFirstOnly(text, searchText, replaceWith) ==
    LET regex == compileRegExp(escapeRegExp(searchText))
        matches == matchGlobal(text, regex)
        at == CHOOSE i \in 1..(Len(text) + 1) :
                 /\ matchesAtStart(regex, slice(text, i - 1))
                 /\ \A h \in 1..(i - 1) : ~matchesAtStart(regex, slice(text, h - 1))
    IN  IF matches = <<>> THEN [text |-> text, matches |-> matches]
        ELSE [text    |-> SubSeq(text, 1, at - 1)
                          \o preserveCase(matches[1], replaceWith)
                          \o slice(text, at - 1 + Len(regex)),
              matches |-> <<matches[1]>>]

\* one turn of the loop over searchVariants, in replaceInFileContent and in
\* renameIfMatches alike: the text after the turn, and the matches replaced
variantPass(text, searchText, replaceWith) ==
    LET regex == compileRegExp(escapeRegExp(searchText))
        matches == matchGlobal(text, regex)
    IN  [text    |-> IF matches # <<>> THEN replaceGlobal(text, regex, replaceWith) ELSE text,
         matches |-> matches]

\* ------------------------------------------------------------------------
\* Bounds and input sets
\* ------------------------------------------------------------------------
\* longest text (file content or basename) given to the substitution engine
MaxTextLen == 3

\* longest search phrase
MaxSearchLen == 2

\* all strings over alphabet of length at most n
Strs(alphabet, n) == UNION {[1..m -> alphabet] : m \in 0..n}

TextAlphabet == {"a", "A", ".", " ", "_"}

SearchAlphabet == {"a", " ", "."}

Texts == Strs(TextAlphabet, MaxTextLen)

SearchTexts == Strs(SearchAlphabet, MaxSearchLen)

Replacements == { <<>>, <<"b","A">>, <<"A","b">>, <<"1">> }

\* the README's example and the round trip of the specification
BjjVideo == <<"b","j","j"," ","v","i","d","e","o">>

MmaTraining == <<"m","m","a"," ","t","r","a","i","n","i","n","g">>

BjjPlayer == <<"B","J","J","V","i","d","e","o","P","l","a","y","e","r",".","t","s","x">>

FooBar == <<"f","o","o"," ","b","a","r">>

BazQux == <<"b","a","z"," ","q","u","x">>

FooBarText == <<"F","o","o","B","a","r"," ","F","O","O","_","B","A","R"," ",
                "f","o","o","-","b","a","r">>

Examples == { [s |-> BjjVideo, r |-> MmaTraining, t |-> BjjPlayer],
              [s |-> FooBar,   r |-> BazQux,      t |-> FooBarText] }

TextInputs ==
    Examples \cup {[s |-> s, r |-> r, t |-> t] :
                      s \in SearchTexts, r \in Replacements, t \in Texts}

\* ------------------------------------------------------------------------
\* State
\* ------------------------------------------------------------------------
VARIABLES
    searchText,      \* the search phrase
    replaceWith,     \* the replacement phrase
    searchVariants,  \* generateVariants(searchText)
    original,        \* the text as read: a file's content or an item's basename
    content,         \* content / newName: the text as the loop has rewritten it
    hasChanges,      \* hasChanges of replaceInFileContent / renameIfMatches
    done,            \* the number of variants the loop has been through
    printed,         \* the pairs "match" -> "replacement" printed by the callbacks
    trace,           \* the text before the loop and after each of its turns
    effect,          \* what the handler did at its end: none, write or rename
    tpc,             \* where the substitution is: start, loop or end
    fs,              \* the file system: path -> [kind, content]
    fs0,             \* the file system as main found it
    origin,          \* path -> the path the item had when main started
    args,            \* process.argv.slice(2)
    pc,              \* setup, run, done (main returned) or exit (process.exit)
    exitCode,        \* the status given to process.exit
    stack,           \* the activations of processDirectory, innermost last
    failures,        \* the I/O errors raised so far
    log              \* the calls made so far, with what each did

\* the variables of the substitution on one text
textVars == <<original, content, hasChanges, done, printed, trace, effect, tpc>>

\* the variables of the directory walk
walkVars == <<fs, fs0, origin, args, pc, exitCode, stack, failures, log>>

vars == <<searchText, replaceWith, searchVariants, textVars, walkVars>>

\* the walk's variables while one text is substituted
WalkIdle ==
    /\ fs = <<>> /\ fs0 = <<>> /\ origin = <<>> /\ args = <<>>
    /\ pc = "idle" /\ exitCode = 0 /\ stack = <<>> /\ failures = 0 /\ log = <<>>

\* the text variables during a directory walk
TextIdle ==
    /\ original = <<>> /\ content = <<>> /\ hasChanges = FALSE /\ done = 0
    /\ printed = <<>> /\ trace = <<>> /\ effect = "none" /\ tpc = "idle"

\* ------------------------------------------------------------------------
\* The substitution engine on one text, turn by turn
\* ------------------------------------------------------------------------
TextInit ==
    /\ \E in \in TextInputs :
          /\ searchText = in.s
          /\ replaceWith = in.r
          /\ original = in.t
    /\ searchVariants = <<>>
    /\ content = original
    /\ hasChanges = FALSE
    /\ done = 0
    /\ printed = <<>>
    /\ trace = <<original>>
    /\ effect = "none"
    /\ tpc = "start"
    /\ WalkIdle

\* main: const searchVariants = generateVariants(searchText)
Generate ==
    /\ tpc = "start"
    /\ searchVariants' = generateVariants(searchText)
    /\ tpc' = "loop"
    /\ UNCHANGED <<searchText, replaceWith, original, content, hasChanges,
                   done, printed, trace, effect>>
    /\ UNCHANGED walkVars

\* one turn of for (const searchText of searchVariants)
VariantTurn ==
    /\ tpc = "loop"
    /\ done < Len(searchVariants)
    /\ LET pass == variantPass(content, searchVariants[done + 1], replaceWith)
       IN  /\ content' = pass.text
           /\ hasChanges' = (hasChanges \/ pass.matches # <<>>)
           /\ printed' = printed \o
                 [i \in 1..Len(pass.matches) |->
                     [match |-> pass.matches[i],
                      replacement |-> preserveCase(pass.matches[i], replaceWith)]]
           /\ trace' = Append(trace, pass.text)
    /\ done' = done + 1
    /\ UNCHANGED <<searchText, replaceWith, searchVariants, original, effect, tpc>>
    /\ UNCHANGED walkVars

\* the end of replaceInFileContent: if (hasChanges) fs.writeFileSync(...)
ContentEnd ==
    /\ tpc = "loop"
    /\ done = Len(searchVariants)
    /\ effect' = IF hasChanges THEN "write" ELSE "none"
    /\ tpc' = "contentEnd"
    /\ UNCHANGED <<searchText, replaceWith, searchVariants, original, content,
                   hasChanges, done, printed, trace>>
    /\ UNCHANGED walkVars

\* the end of renameIfMatches: if (hasChanges) fs.renameSync(...)
NameEnd ==
    /\ tpc = "loop"
    /\ done = Len(searchVariants)
    /\ effect' = IF hasChanges THEN "rename" ELSE "none"
    /\ tpc' = "nameEnd"
    /\ UNCHANGED <<searchText, replaceWith, searchVariants, original, content,
                   hasChanges, done, printed, trace>>
    /\ UNCHANGED walkVars

TextNext == Generate \/ VariantTurn \/ ContentEnd \/ NameEnd

SpecText == TextInit /\ [][TextNext]_vars

\* ------------------------------------------------------------------------
\* Properties of the variant generator and of the substitution engine
\* (specification SpecText)
\* ------------------------------------------------------------------------
\* whether v is a literal substring of t
Contains(t, v) ==
    \E i \in 1..(Len(t) + 1) :
        /\ i + Len(v) - 1 <= Len(t)
        /\ SubSeq(t, i, i + Len(v) - 1) = v

\* the eleven forms of "bjj video" enumerated in the README, in its order
ReadmeVariants ==
    << <<"b","j","j"," ","v","i","d","e","o">>,
       <<"B","J","J"," ","V","I","D","E","O">>,
       <<"b","j","j","_","v","i","d","e","o">>,
       <<"B","J","J","_","V","I","D","E","O">>,
       <<"b","j","j","-","v","i","d","e","o">>,
       <<"B","J","J","-","V","I","D","E","O">>,
       <<"b","j","j","V","i","d","e","o">>,
       <<"B","j","j","V","i","d","e","o">>,
       <<"B","J","J"," ","V","i","d","e","o">>,
       <<"b","j","j","v","i","d","e","o">>,
       <<"B","J","J","V","I","D","E","O">> >>

\* C1: generateVariants("bjj video") is exactly the README's eleven forms,
\* in the README's order
C1_ReadmeVariants ==
    (tpc # "start" /\ searchText = BjjVideo) => searchVariants = ReadmeVariants

\* the round trip of the specification as the claim states it
StyledRoundTrip ==
    <<"B","a","z","Q","u","x"," ","B","A","Z","_","Q","U","X"," ",
      "b","a","z","-","q","u","x">>

\* the round trip with the replacement phrase adjusted in its first
\* character only
FirstCharRoundTrip ==
    <<"B","a","z"," ","q","u","x"," ","B","a","z"," ","q","u","x"," ",
      "b","a","z"," ","q","u","x">>

IsRoundTrip ==
    /\ tpc = "contentEnd"
    /\ searchText = FooBar /\ replaceWith = BazQux /\ original = FooBarText

\* C2 as claimed: content substitution of "foo bar" by "baz qux" turns
\* "FooBar FOO_BAR foo-bar" into "BazQux BAZ_QUX baz-qux"
C2_StyledRoundTrip == IsRoundTrip => content = StyledRoundTrip

\* C2 amended: every occurrence becomes the replacement phrase with only its
\* first character case-adjusted: "Baz qux Baz qux baz qux"
C2_FirstCharRoundTrip ==
    IsRoundTrip => (content = FirstCharRoundTrip /\ effect = "write")

C2_Witness == IsRoundTrip /\ Len(printed) = 3

\* u is the uppercase form of the character c, by the letter tables alone
IsUpperOf(u, c) ==
    IF c \in LowerSet
    THEN \E i \in LetterIdx : LowerLetters[i] = c /\ UpperLetters[i] = u
    ELSE u = c

\* l is the lowercase form of the character c
IsLowerOf(l, c) ==
    IF c \in UpperSet
    THEN \E i \in LetterIdx : UpperLetters[i] = c /\ LowerLetters[i] = l
    ELSE l = c

\* what the claim says preserveCase(m, r) is, for the result out
CaseRule(m, r, out) ==
    IF m = <<>> \/ r = <<>> THEN out = r
    ELSE /\ Len(out) = Len(r)
         /\ \A i \in 2..Len(r) : out[i] = r[i]
         /\ (m[1] \in UpperSet => IsUpperOf(out[1], r[1]))
         /\ (m[1] \notin UpperSet => IsLowerOf(out[1], r[1]))
         /\ (m[1] \in LowerSet => out[1] \notin UpperSet)

\* C3: every replacement the callbacks compute follows the first-character
\* rule: an uppercase first letter of the match uppercases the replacement's
\* first character, anything else lowercases it, the rest of the replacement
\* is never changed, and an empty match or replacement gives the replacement
\* as it is
C3_FirstCharacterRule ==
    \A i \in 1..Len(printed) :
        CaseRule(printed[i].match, replaceWith, printed[i].replacement)

\* a match with an uppercase first letter whose replacement starts with a
\* lowercase letter and goes on with an uppercase one
C3_Witness ==
    \E i \in 1..Len(printed) :
        /\ printed[i].match # <<>> /\ printed[i].match[1] \in UpperSet
        /\ replaceWith = <<"b","A">>
        /\ printed[i].replacement = <<"B","A">>

\* C5: a text that holds none of the variants as a literal substring comes
\* out of the loop unchanged, with no change reported and neither a write
\* nor a rename; the README's "BJJVideoPlayer.tsx" under "bjj video" is such
\* a text
C5_LiteralMatching ==
    /\ (tpc \in {"contentEnd", "nameEnd"}
        /\ \A i \in 1..Len(searchVariants) : ~Contains(original, searchVariants[i]))
       => (content = original /\ ~hasChanges /\ effect = "none" /\ printed = <<>>)
    /\ (tpc \in {"contentEnd", "nameEnd"} /\ searchText = BjjVideo /\ original = BjjPlayer)
       => (content = original /\ effect = "none")

\* a basename with a character in the place of a variant's ".", left alone
C5_Witness ==
    /\ tpc = "nameEnd"
    /\ searchText = <<"a", ".">>
    /\ original = <<"a", "a", "A">>
    /\ content = original /\ effect = "none"

\* the starts of the occurrences of v in t
Occurrences(t, v) ==
    {i \in 1..(Len(t) + 1) :
        i + Len(v) - 1 <= Len(t) /\ SubSeq(t, i, i + Len(v) - 1) = v}

\* the occurrences a left-to-right scan for non-overlapping matches takes:
\* an occurrence is taken unless it starts inside one taken before it
Taken(t, v) ==
    CHOOSE P \in SUBSET Occurrences(t, v) :
        \A i \in Occurrences(t, v) :
            i \in P <=> ~\E p \in P : p < i /\ i < p + Len(v)

RECURSIVE Rebuild(_, _, _, _, _)
\* t from offset i on, with rep in the place of the n characters at each
\* offset of P
Rebuild(t, i, P, n, rep) ==
    IF i > Len(t) THEN (IF i \in P THEN rep ELSE <<>>)
    ELSE IF i \in P /\ n > 0 THEN rep \o Rebuild(t, i + n, P, n, rep)
    ELSE IF i \in P THEN rep \o <<t[i]>> \o Rebuild(t, i + 1, P, n, rep)
    ELSE <<t[i]>> \o Rebuild(t, i + 1, P, n, rep)

\* the case-adjusted replacement for an occurrence of v
Adjusted(v, r) ==
    IF v = <<>> \/ r = <<>> THEN r
    ELSE IF v[1] \in UpperSet THEN <<charToUpper(r[1])>> \o Tail(r)
    ELSE <<charToLower(r[1])>> \o Tail(r)

\* one pass as the claim describes it
ExpectedPass(t, v, r) == Rebuild(t, 1, Taken(t, v), Len(v), Adjusted(v, r))

\* C8: the loop is a fold over the variant list: turn j rewrites the text
\* that turn j-1 left, replacing the non-overlapping occurrences of variant
\* j found left to right in that text and nothing it has itself put in
C8_SequentialFold ==
    /\ Len(trace) = done + 1
    /\ trace[1] = original
    /\ content = trace[Len(trace)]
    /\ \A j \in 1..done :
          trace[j + 1] = ExpectedPass(trace[j], searchVariants[j], replaceWith)

\* a later variant has matched where the text as read held no occurrence of
\* it: the match is in text an earlier replacement put in
C8_Witness ==
    /\ tpc \in {"contentEnd", "nameEnd"}
    /\ \E j \in 2..done :
          /\ trace[j + 1] # trace[j]
          /\ ~Contains(original, searchVariants[j])
          /\ \E h \in 1..(j - 1) : trace[h + 1] # trace[h]

\* ------------------------------------------------------------------------
\* The directory walk: main, processDirectory, replaceInFileContent and
\* renameIfMatches on a file system
\* ------------------------------------------------------------------------
\* the most nodes in the tree the tool is run on
MaxNodes == 3

\* the most I/O errors raised during one run
MaxFailures == 1

NameObj == <<"o","b","j">>

NameBon == <<"b","o","n">>

NameBin == <<"b","i","n">>

NameX == <<"x">>

\* the names files and folders bear before the run
Names == {NameObj, NameBon, NameBin, NameX}

FileContents == { <<"o">>, <<"x">> }

WalkSearchTexts == { <<"o">> }

WalkReplacements == { <<"i">>, <<"O">>, <<>>, <<" ">> }

\* the root paths given on the command line
RootPaths == {<<n>> : n \in Names}

\* the argument vectors: too few arguments, or a root, a search text and a
\* replacement text
ArgVectors ==
    {<<>>}
    \cup {<<r>> : r \in RootPaths}
    \cup {<<r, t>> : r \in RootPaths, t \in WalkSearchTexts}
    \cup {<<r, t, w>> : r \in RootPaths, t \in WalkSearchTexts, w \in WalkReplacements}

\* the value null
null == <<>>

\* path.basename, path.dirname, path.join
basename(path) == path[Len(path)]

dirname(path) == SubSeq(path, 1, Len(path) - 1)

join(dir, name) == Append(dir, name)

\* whether path is dir or lies under it
IsUnder(path, dir) == Len(dir) <= Len(path) /\ SubSeq(path, 1, Len(dir)) = dir

Dir == [kind |-> "dir", content |-> <<>>]

File(c) == [kind |-> "file", content |-> c]

\* the entries of directory dir in file system f
entries(f, dir) == {q \in DOMAIN f : Len(q) = Len(dir) + 1 /\ dirname(q) = dir}

\* the orders in which readdirSync may give the elements of S
Orders(S) ==
    {o \in [1..Cardinality(S) -> S] :
        \A i, j \in 1..Cardinality(S) : i # j => o[i] # o[j]}

\* String.prototype.trim
RECURSIVE trimEnd(_)
trimEnd(str) ==
    IF str # <<>> /\ isSpace(str[Len(str)])
    THEN trimEnd(SubSeq(str, 1, Len(str) - 1)) ELSE str

\* trim that leaves the string as it is
trimNone(str) == str

trim(str) == trimEnd(dropSpaces(str))

\* shouldIgnoreFolder without 'obj' in its list
shouldIgnoreFolderNoObj(folderName) ==
    folderName \in { <<".","g","i","t">>, <<"b","i","n">>,
                     <<"n","o","d","e","_","m","o","d","u","l","e","s">>,
                     <<"d","i","s","t">> }

\* shouldIgnoreFolder(folderName)
shouldIgnoreFolder(folderName) ==
    folderName \in { <<".","g","i","t">>, <<"b","i","n">>, <<"o","b","j">>,
                     <<"n","o","d","e","_","m","o","d","u","l","e","s">>,
                     <<"d","i","s","t">> }

RECURSIVE substituteAll(_, _, _)
\* the whole loop over searchVariants: the text it leaves and hasChanges
substituteAll(text, variants, replacement) ==
    IF variants = <<>> THEN [text |-> text, hasChanges |-> FALSE]
    ELSE LET pass == variantPass(text, Head(variants), replacement)
             rest == substituteAll(pass.text, Tail(variants), replacement)
         IN  [text |-> rest.text,
              hasChanges |-> (pass.matches # <<>> \/ rest.hasChanges)]

\* renameIfMatches that renames only when the name has changed
renameWantedIfDifferent(changes, itemName, newName) == newName # itemName

\* renameIfMatches: if (hasChanges)
renameWanted(changes, itemName, newName) == changes

\* f with the item at from, and all under it, moved to to
moved(f, from, to) ==
    LET kept == {q \in DOMAIN f : ~IsUnder(q, from) /\ ~IsUnder(q, to)}
        gone == {q \in DOMAIN f : IsUnder(q, from)}
        new  == {to \o slice(q, Len(from)) : q \in gone}
    IN  [q \in kept \cup new |->
            IF q \in kept THEN f[q] ELSE f[from \o slice(q, Len(to))]]

\* fs.renameSync(from, to) on file system f: whether it succeeds.  A file
\* replaces a file, a directory replaces an empty directory; a missing
\* source, a file onto a directory, a directory onto a file or onto a
\* directory that is not empty are errors
renameAllowed(f, from, to) ==
    /\ from \in DOMAIN f
    /\ \/ to = from
       \/ to \notin DOMAIN f
       \/ f[from].kind = "file" /\ f[to].kind = "file"
       \/ f[from].kind = "dir" /\ f[to].kind = "dir" /\ entries(f, to) = {}

\* the file system after a successful fs.renameSync(from, to)
renamed(f, from, to) == IF to = from THEN f ELSE moved(f, from, to)

\* renameIfMatches after a rename that threw, returning the new path all the same
renameResultAlways(ok, newPath) == newPath

\* renameIfMatches: return newPath from the try, null from the catch
renameResult(ok, newPath) == IF ok THEN newPath ELSE null

\* processDirectory on the path before the rename
pathToProcessOld(newDirPath, dirPath) == dirPath

\* const pathToProcess = newDirPath || dirPath
pathToProcess(newDirPath, dirPath) ==
    IF newDirPath # null THEN newDirPath ELSE dirPath

\* one entry of the log: a call, and what it did
Entry(op, path, kind) ==
    [op |-> op, path |-> path, kind |-> kind, found |-> TRUE, ok |-> TRUE,
     issued |-> FALSE, changed |-> FALSE, to |-> null, ret |-> null,
     item |-> null, files |-> <<>>, directories |-> <<>>, subdirs |-> {}]

\* an activation of processDirectory
Frame(dirPath) ==
    [dirPath |-> dirPath, files |-> <<>>, directories |-> <<>>,
     fi |-> 1, di |-> 1, phase |-> "list", pathToProcess |-> null]

\* where an activation goes on: the next file, the next directory, or out
Continue(frame) ==
    [frame EXCEPT !.phase = IF frame.fi <= Len(frame.files) THEN "content"
                            ELSE IF frame.di <= Len(frame.directories) THEN "dir"
                            ELSE "return"]

top == stack[Len(stack)]

SetTop(frame) == [stack EXCEPT ![Len(stack)] = frame]

WalkInit ==
    /\ searchText = <<>> /\ replaceWith = <<>> /\ searchVariants = <<>>
    /\ TextIdle
    /\ fs = (<<>> :> Dir)
    /\ fs0 = <<>>
    /\ origin = <<>>
    /\ args = <<>>
    /\ pc = "setup"
    /\ exitCode = 0
    /\ stack = <<>>
    /\ failures = 0
    /\ log = <<>>

\* the tree the tool will be run on is built: one more directory
CreateDir ==
    /\ pc = "setup"
    /\ Cardinality(DOMAIN fs) - 1 < MaxNodes
    /\ \E dir \in DOMAIN fs, name \in Names :
          /\ fs[dir].kind = "dir"
          /\ join(dir, name) \notin DOMAIN fs
          /\ dir = <<>> => entries(fs, dir) = {}
          /\ fs' = (join(dir, name) :> Dir) @@ fs
    /\ UNCHANGED <<searchText, replaceWith, searchVariants, textVars, fs0,
                   origin, args, pc, exitCode, stack, failures, log>>

\* the tree the tool will be run on is built: one more file
CreateFile ==
    /\ pc = "setup"
    /\ Cardinality(DOMAIN fs) - 1 < MaxNodes
    /\ \E dir \in DOMAIN fs, name \in Names, c \in FileContents :
          /\ fs[dir].kind = "dir"
          /\ join(dir, name) \notin DOMAIN fs
          /\ dir = <<>> => entries(fs, dir) = {}
          /\ fs' = (join(dir, name) :> File(c)) @@ fs
    /\ UNCHANGED <<searchText, replaceWith, searchVariants, textVars, fs0,
                   origin, args, pc, exitCode, stack, failures, log>>

\* main, up to its call of processDirectory
Main ==
    /\ pc = "setup"
    /\ \E argv \in ArgVectors :
          /\ args' = argv
          /\ fs0' = fs
          /\ origin' = [q \in DOMAIN fs |-> q]
          /\ IF Len(argv) < 3
             THEN /\ pc' = "exit" /\ exitCode' = 1
                  /\ UNCHANGED <<searchText, replaceWith, searchVariants, stack>>
             ELSE /\ searchText' = argv[2]
                  /\ replaceWith' = argv[3]
                  /\ IF \/ trim(argv[3]) = <<>>
                        \/ argv[1] \notin DOMAIN fs
                        \/ fs[argv[1]].kind # "dir"
                     THEN /\ pc' = "exit" /\ exitCode' = 1
                          /\ UNCHANGED <<searchVariants, stack>>
                     ELSE /\ searchVariants' = generateVariants(argv[2])
                          /\ stack' = <<Frame(argv[1])>>
                          /\ pc' = "run"
                          /\ UNCHANGED exitCode
    /\ UNCHANGED <<textVars, fs, failures, log>>

\* processDirectory: readdirSync, then the loop that sorts the items into
\* files and directories; a readdirSync that throws ends the activation
ListDirectory ==
    /\ pc = "run"
    /\ top.phase = "list"
    /\ LET dirPath == top.dirPath
           here == dirPath \in DOMAIN fs /\ fs[dirPath].kind = "dir"
       IN  IF ~here
           THEN /\ stack' = SetTop([top EXCEPT !.phase = "return"])
                /\ log' = Append(log, [Entry("processDirectory", dirPath, "dir")
                                          EXCEPT !.found = FALSE, !.ok = FALSE])
           ELSE \E items \in Orders(entries(fs, dirPath)) :
                   LET files == SelectSeq(items, LAMBDA q : fs[q].kind = "file")
                       directories ==
                           SelectSeq(items, LAMBDA q : /\ fs[q].kind = "dir"
                                                       /\ ~shouldIgnoreFolder(basename(q)))
                   IN  /\ stack' = SetTop(Continue([top EXCEPT !.files = files,
                                                               !.directories = directories]))
                       /\ log' = Append(log, [Entry("processDirectory", dirPath, "dir")
                                  EXCEPT !.files = files, !.directories = directories,
                                         !.subdirs = {q \in entries(fs, dirPath) :
                                                         fs[q].kind = "dir"}])
    /\ UNCHANGED <<searchText, replaceWith, searchVariants, textVars, fs, fs0,
                   origin, args, pc, exitCode, failures>>

\* replaceInFileContent(filePath, searchVariants, replaceWith), whole: the
\* read, the loop, the write if anything was replaced, and the catch
ReplaceInFileContent ==
    /\ pc = "run"
    /\ top.phase = "content"
    /\ LET filePath == top.files[top.fi]
           found == filePath \in DOMAIN fs /\ fs[filePath].kind = "file"
           entry == [Entry("replaceInFileContent", filePath, "file")
                        EXCEPT !.found = found,
                               !.item = IF found THEN origin[filePath] ELSE null]
       IN  \E outcome \in {"done", "readError", "writeError"} :
              /\ outcome = "done" => found
              /\ outcome # "done" /\ found => failures < MaxFailures
              /\ outcome = "writeError" => found
              /\ IF outcome = "readError"
                 THEN /\ fs' = fs
                      /\ failures' = IF found THEN failures + 1 ELSE failures
                      /\ log' = Append(log, [entry EXCEPT !.ok = FALSE])
                 ELSE LET result == substituteAll(fs[filePath].content,
                                                  searchVariants, replaceWith)
                      IN  /\ outcome = "writeError" => result.hasChanges
                          /\ IF outcome = "writeError"
                             THEN /\ fs' = fs
                                  /\ failures' = failures + 1
                             ELSE /\ fs' = IF result.hasChanges
                                           THEN [fs EXCEPT ![filePath].content = result.text]
                                           ELSE fs
                                  /\ failures' = failures
                          /\ log' = Append(log,
                                [entry EXCEPT !.ok = (outcome = "done"),
                                              !.issued = result.hasChanges,
                                              !.changed = (fs' # fs)])
    /\ stack' = SetTop([top EXCEPT !.phase = "rename"])
    /\ UNCHANGED <<searchText, replaceWith, searchVariants, textVars, fs0,
                   origin, args, pc, exitCode>>

\* renameIfMatches(itemPath, searchVariants, replaceWith), whole, on file
\* system f: the new file system, the origins, the value returned and the
\* entry of the log, for a rename that the system lets through or not
renameIfMatches(itemPath, kind, forced) ==
    LET itemName == basename(itemPath)
        result == substituteAll(itemName, searchVariants, replaceWith)
        newName == result.text
        newPath == join(dirname(itemPath), newName)
        wanted == renameWanted(result.hasChanges, itemName, newName)
        ok == wanted /\ ~forced /\ renameAllowed(fs, itemPath, newPath)
    IN  [fs     |-> IF ok THEN renamed(fs, itemPath, newPath) ELSE fs,
         origin |-> IF ok THEN renamed(origin, itemPath, newPath) ELSE origin,
         ret    |-> IF wanted THEN renameResult(ok, newPath) ELSE null,
         entry  |-> [Entry("renameIfMatches", itemPath, kind)
                        EXCEPT !.found = (itemPath \in DOMAIN fs),
                               !.item = IF itemPath \in DOMAIN fs
                                        THEN origin[itemPath] ELSE null,
                               !.issued = wanted,
                               !.ok = (~wanted \/ ok),
                               !.to = newPath,
                               !.ret = IF wanted THEN renameResult(ok, newPath) ELSE null,
                               !.changed = (ok /\ renamed(fs, itemPath, newPath) # fs)]]

\* whether a call of renameIfMatches may be given an I/O error
MayFail(itemPath, forced) ==
    forced =>
        /\ failures < MaxFailures
        /\ substituteAll(basename(itemPath), searchVariants, replaceWith).hasChanges
        /\ itemPath \in DOMAIN fs

\* processDirectory: renameIfMatches(filePath, ...), its result dropped
RenameFile ==
    /\ pc = "run"
    /\ top.phase = "rename"
    /\ \E forced \in BOOLEAN :
          /\ MayFail(top.files[top.fi], forced)
          /\ LET r == renameIfMatches(top.files[top.fi], "file", forced)
             IN  /\ fs' = r.fs
                 /\ origin' = r.origin
                 /\ log' = Append(log, r.entry)
                 /\ failures' = IF forced THEN failures + 1 ELSE failures
    /\ stack' = SetTop(Continue([top EXCEPT !.fi = top.fi + 1]))
    /\ UNCHANGED <<searchText, replaceWith, searchVariants, textVars, fs0,
                   args, pc, exitCode>>

\* processDirectory: const newDirPath = renameIfMatches(dirPath, ...) and
\* const pathToProcess = newDirPath || dirPath
RenameDirectory ==
    /\ pc = "run"
    /\ top.phase = "dir"
    /\ \E forced \in BOOLEAN :
          /\ MayFail(top.directories[top.di], forced)
          /\ LET dirPath == top.directories[top.di]
                 r == renameIfMatches(dirPath, "dir", forced)
             IN  /\ fs' = r.fs
                 /\ origin' = r.origin
                 /\ log' = Append(log, r.entry)
                 /\ failures' = IF forced THEN failures + 1 ELSE failures
                 /\ stack' = SetTop([top EXCEPT
                                        !.phase = "recurse",
                                        !.pathToProcess = pathToProcess(r.ret, dirPath)])
    /\ UNCHANGED <<searchText, replaceWith, searchVariants, textVars, fs0,
                   args, pc, exitCode>>

\* processDirectory: processDirectory(pathToProcess, ...)
Recurse ==
    /\ pc = "run"
    /\ top.phase = "recurse"
    /\ stack' = Append(SetTop(Continue([top EXCEPT !.di = top.di + 1])),
                       Frame(top.pathToProcess))
    /\ UNCHANGED <<searchText, replaceWith, searchVariants, textVars, fs, fs0,
                   origin, args, pc, exitCode, failures, log>>

\* processDirectory returns; the outermost return is main's end
Return ==
    /\ pc = "run"
    /\ top.phase = "return"
    /\ stack' = SubSeq(stack, 1, Len(stack) - 1)
    /\ pc' = IF Len(stack) = 1 THEN "done" ELSE "run"
    /\ UNCHANGED <<searchText, replaceWith, searchVariants, textVars, fs, fs0,
                   origin, args, exitCode, failures, log>>

Next ==
    \/ CreateDir
    \/ CreateFile
    \/ Main
    \/ ListDirectory
    \/ ReplaceInFileContent
    \/ RenameFile
    \/ RenameDirectory
    \/ Recurse
    \/ Return

Spec == WalkInit /\ [][Next]_vars

\* ------------------------------------------------------------------------
\* Properties of the directory walk (specification Spec)
\* ------------------------------------------------------------------------
\* the folder names the README lists as ignored
IgnoredNames ==
    { <<".","g","i","t">>, <<"b","i","n">>, <<"o","b","j">>,
      <<"n","o","d","e","_","m","o","d","u","l","e","s">>, <<"d","i","s","t">> }

LogIdx == 1..Len(log)

IsList(e) == e.op = "processDirectory"

IsContent(e) == e.op = "replaceInFileContent"

IsRename(e) == e.op = "renameIfMatches"

\* a rename that was issued and went through
Succeeded(e) == IsRename(e) /\ e.issued /\ e.ok

\* C4 as claimed: no folder bearing an ignored name is ever entered or
\* renamed, the root and a folder just renamed included
C4_NeverEnteredOrRenamed ==
    \A j \in LogIdx :
        (log[j].kind = "dir" /\ basename(log[j].path) \in IgnoredNames)
        => /\ ~IsList(log[j])
           /\ ~(IsRename(log[j]) /\ log[j].issued)

\* C4 amended: a folder that bears an ignored name when the directory
\* holding it is listed is not entered and not renamed, and nothing under it
\* is read, written or renamed; a later call on that path is on a folder
\* the run has since renamed into the name
C4_ListedIgnoredUntouched ==
    \A i, j \in LogIdx :
        i < j =>
        \A q \in log[i].subdirs :
            (basename(q) \in IgnoredNames /\ IsUnder(log[j].path, q))
            => \E h \in (i + 1)..(j - 1) : Succeeded(log[h]) /\ log[h].to = q

\* a listing found the folder obj, whose name holds the variant "o", with a
\* file bon of content "o" in it, and the run ended with both as they were
C4_Witness ==
    /\ pc = "done"
    /\ searchVariants # <<>> /\ searchVariants[1] = <<"o">>
    /\ \E i \in LogIdx : \E q \in log[i].subdirs :
          /\ basename(q) = NameObj
          /\ join(q, NameBon) \in DOMAIN fs
          /\ fs[join(q, NameBon)] = File(<<"o">>)

\* C6 as claimed: a rename is issued, and a path returned, only when the
\* new basename differs from the old one
C6_OnlyWhenChanged ==
    \A j \in LogIdx :
        (IsRename(log[j]) /\ (log[j].issued \/ log[j].ret # null))
        => basename(log[j].to) # basename(log[j].path)

\* C6 amended: a rename is issued exactly when a variant occurs in the
\* basename, and the new path is returned exactly when that rename went
\* through; without an occurrence the name is left, nothing is issued and
\* null is returned
C6_WhenMatched ==
    \A j \in LogIdx :
        IsRename(log[j]) =>
        LET e == log[j]
            occurs == \E k \in 1..Len(searchVariants) :
                          Contains(basename(e.path), searchVariants[k])
        IN  /\ e.issued <=> occurs
            /\ e.ret # null <=> (e.issued /\ e.ok)
            /\ e.ret # null => e.ret = e.to
            /\ ~e.issued => e.to = e.path
            /\ dirname(e.to) = dirname(e.path)

\* a rename issued, and its path returned, for a name the replacement left
\* as it was
C6_Witness ==
    \E j \in LogIdx :
        /\ IsRename(log[j]) /\ log[j].issued
        /\ log[j].to = log[j].path /\ log[j].ret = log[j].path

\* a string of whitespace only
Blank(str) == \A i \in 1..Len(str) : str[i] \in {" ", "\t"}

\* the arguments main rejects, by the claim
FatalArgs ==
    \/ Len(args) < 3
    \/ Blank(args[3])
    \/ args[1] \notin DOMAIN fs0
    \/ fs0[args[1]].kind # "dir"

\* C7: with too few arguments, a blank replacement text or a root that is
\* no directory, main exits with a non-zero status before processDirectory
\* is started: nothing is read, written or renamed
C7_FatalBeforeMutation ==
    (pc \in {"run", "done", "exit"} /\ FatalArgs)
    => /\ pc = "exit" /\ exitCode # 0
       /\ stack = <<>> /\ log = <<>> /\ fs = fs0

\* a blank replacement text refused on a root that holds a file to rewrite
C7_Witness ==
    /\ pc = "exit" /\ exitCode = 1
    /\ Len(args) = 3 /\ args[3] = <<" ">>
    /\ args[1] \in DOMAIN fs /\ fs[args[1]].kind = "dir"
    /\ \E q \in entries(fs, args[1]) : fs[q] = File(<<"o">>)

\* C9: in every directory visited, a file's content is substituted right
\* before the file is renamed; all files are through both before any
\* subdirectory is renamed or entered; a subdirectory is renamed right
\* before it is entered, under the new path if the rename went through; and
\* every call is on a path that exists when it is made
C9_TraversalOrder ==
    /\ \A j \in LogIdx :
          /\ log[j].found
          /\ (IsRename(log[j]) /\ log[j].kind = "file")
             => (j > 1 /\ IsContent(log[j - 1]) /\ log[j - 1].path = log[j].path)
          /\ (IsList(log[j]) /\ j > 1)
             => (IsRename(log[j - 1]) /\ log[j - 1].kind = "dir"
                 /\ log[j].path = IF Succeeded(log[j - 1])
                                  THEN log[j - 1].to ELSE log[j - 1].path)
          /\ (IsRename(log[j]) /\ log[j].kind = "dir" /\ j < Len(log))
             => IsList(log[j + 1])
    /\ \A i, j \in LogIdx :
          (i < j /\ log[i].kind = "dir" /\ i > 1 /\ log[j].kind = "file")
          => dirname(log[i].path) # dirname(log[j].path)
    /\ \A i, j \in LogIdx :
          (i < j /\ IsList(log[i]) /\ log[j].kind = "dir"
           /\ dirname(log[j].path) = log[i].path /\ IsRename(log[j]))
          => \A k \in 1..Len(log[i].files) :
                /\ \E h \in (i + 1)..(j - 1) :
                      IsContent(log[h]) /\ log[h].path = log[i].files[k]
                /\ \E h \in (i + 1)..(j - 1) :
                      IsRename(log[h]) /\ log[h].path = log[i].files[k]

\* a directory holding a file and a subdirectory: the file rewritten and
\* renamed, then the subdirectory renamed and entered under its new name
C9_Witness ==
    /\ pc = "done"
    /\ \E h, j \in LogIdx :
          /\ h < j /\ j < Len(log)
          /\ IsRename(log[h]) /\ log[h].kind = "file" /\ log[h].changed
          /\ IsContent(log[h - 1]) /\ log[h - 1].changed
          /\ IsRename(log[j]) /\ log[j].kind = "dir" /\ log[j].changed
          /\ dirname(log[j].path) = dirname(log[h].path)
          /\ IsList(log[j + 1]) /\ log[j + 1].path = log[j].to /\ log[j + 1].ok

\* a call that met an I/O error
Failed(e) == ~e.ok /\ e.found /\ (IsContent(e) \/ IsRename(e))

\* C10 as claimed: an item one of whose operations failed is, from then on,
\* exactly as main found it: its name and its content
C10_FailedItemAsFound ==
    \A j \in LogIdx :
        Failed(log[j]) =>
        \E q \in DOMAIN fs :
            /\ origin[q] = log[j].item
            /\ basename(q) = basename(log[j].item)
            /\ fs[q] = fs0[log[j].item]

\* C10 amended: a failed operation changes nothing and is not made again;
\* the run goes on with the other operation on the same item (the rename of
\* a file whose content could not be processed, the descent into a
\* directory whose rename failed, under its old path) and, by its end, has
\* processed every file and every subdirectory each listing found
C10_FailureIsLocal ==
    /\ \A j \in LogIdx :
          /\ ~log[j].ok => ~log[j].changed
          /\ (j < Len(log) /\ ~log[j].ok /\ ~IsList(log[j]))
             => ~(log[j + 1].op = log[j].op /\ log[j + 1].path = log[j].path)
          /\ (j < Len(log) /\ IsContent(log[j]))
             => (IsRename(log[j + 1]) /\ log[j + 1].path = log[j].path)
          /\ (j < Len(log) /\ IsRename(log[j]) /\ log[j].kind = "dir" /\ ~log[j].ok)
             => (IsList(log[j + 1]) /\ log[j + 1].path = log[j].path /\ log[j + 1].ok)
    /\ pc \in {"run", "done"}
       => \A i \in LogIdx :
             IsList(log[i]) =>
             /\ \A k \in 1..Len(log[i].files) :
                   (pc = "done" \/ \E h \in LogIdx : h > i /\ log[h].kind = "dir"
                                                    /\ dirname(log[h].path) = log[i].path)
                   => /\ \E h \in LogIdx : h > i /\ IsContent(log[h])
                                           /\ log[h].path = log[i].files[k]
                      /\ \E h \in LogIdx : h > i /\ IsRename(log[h])
                                           /\ log[h].path = log[i].files[k]
             /\ \A k \in 1..Len(log[i].directories) :
                   pc = "done"
                   => \E h \in LogIdx :
                         /\ h > i /\ h < Len(log)
                         /\ IsRename(log[h]) /\ log[h].path = log[i].directories[k]
                         /\ IsList(log[h + 1])

\* a run that ended after the rename of a directory failed: the directory
\* was entered under its old path and the file in it rewritten
C10_Witness ==
    /\ pc = "done"
    /\ \E j \in LogIdx :
          /\ j + 2 <= Len(log)
          /\ Failed(log[j]) /\ log[j].kind = "dir"
          /\ IsList(log[j + 1]) /\ log[j + 1].path = log[j].path
          /\ IsContent(log[j + 2]) /\ log[j + 2].changed

====
